---------------------------- MODULE Spec2Model ----------------------------
(***************************************************************************)
(* Model of chousei (src/src/main.rs): an SRT subtitle time shifter.       *)
(*                                                                         *)
(* Texts are TLA+ strings (sequences of characters).  u32 values are kept  *)
(* at their full width as two 16-bit limbs [hi, lo], because a value such  *)
(* as 2^32 - 500 does not fit the model checker's integers.                *)
(***************************************************************************)
EXTENDS Integers, Sequences, FiniteSets, TLC

VARIABLES
  pc,               \* position of the run
  overflow_checks,  \* build profile: TRUE = debug (overflow panics), FALSE = release (wraps)
  args_adjustment,  \* Arguments.adjustment
  args_output,      \* Arguments.output: "None", or "Some" for a path other than Arguments.file
  file_text,        \* contents of Arguments.file
  output_file,      \* contents of the file at Arguments.output, "" before it is written
  file_readable,    \* whether fs::read_to_string returns Ok (the file exists and is UTF-8)
  output_writable,  \* whether fs::write returns Ok
  adjustment,       \* main: adjustment (u32)
  neg,              \* main: neg
  text,             \* main: text after the \r / BOM removal
  lines_iter,       \* parse_srt: the lines not yet consumed
  index,            \* parse_srt: index
  subtitles,        \* parse_srt: subtitles, then main: subtitles
  result,           \* what parse_srt returned
  output,           \* main: output
  exit_status,      \* how the process ended
  millis_in,        \* codec runs: the u32 given to print_time
  time_text,        \* codec runs: the text given to parse_time
  base_index,       \* codec runs: the index given to parse_time
  decoded,          \* codec runs: what parse_time returned
  delta1,           \* composition runs: first adjustment [neg, adjustment]
  delta2,           \* composition runs: second adjustment
  single,           \* composition runs: the records adjusted once by delta1 + delta2
  chained           \* composition runs: the records adjusted by delta1, then by delta2

vars == <<pc, overflow_checks, args_adjustment, args_output, file_text,
          output_file, file_readable,
          output_writable, adjustment, neg,
          text, lines_iter, index, subtitles, result, output, exit_status,
          millis_in, time_text, base_index, decoded, delta1, delta2, single,
          chained>>

-----------------------------------------------------------------------------
\* F(v) with v evaluated once, before F uses it: the value of a local
\* variable of the code, as opposed to an expression unfolded at each use
With(v, F(_)) == CHOOSE r \in {F(x) : x \in {v}} : TRUE

-----------------------------------------------------------------------------
(* u32 arithmetic                                                          *)

Base == 2^16

\* the u32 with value n, for n a model integer
U32(n) == [hi |-> n \div Base, lo |-> n % Base]

\* the value of a u32 below 2^31 as a model integer
ToInt(a) == a.hi * Base + a.lo

FitsInt(a) == a.hi < Base \div 2

U32Max == [hi |-> Base - 1, lo |-> Base - 1]

Less(a, b) == a.hi < b.hi \/ (a.hi = b.hi /\ a.lo < b.lo)

\* u32::overflowing_add
AddU32(a, b) ==
  LET lo == a.lo + b.lo
      hi == a.hi + b.hi + (lo \div Base)
  IN  [val |-> [hi |-> hi % Base, lo |-> lo % Base], overflow |-> hi >= Base]

\* u32::overflowing_sub
SubU32(a, b) ==
  LET lo == a.lo - b.lo
      borrow == IF lo < 0 THEN 1 ELSE 0
      hi == a.hi - b.hi - borrow
  IN  [val |-> [hi |-> hi % Base, lo |-> lo % Base], overflow |-> hi < 0]

\* u32::overflowing_mul by a factor k of at most 2^15
MulSmall(a, k) ==
  LET lo == a.lo * k
      hi == a.hi * k + (lo \div Base)
  IN  [val |-> [hi |-> hi % Base, lo |-> lo % Base], overflow |-> hi >= Base]

\* a value that did not overflow
Exact(v) == [val |-> v, overflow |-> FALSE]

\* r, overflowed if an operand of it had overflowed already
WithOverflow(r, flag) == [val |-> r.val, overflow |-> r.overflow \/ flag]

\* x + y and x * k for operands that carry their overflow flag
AddChecked(x, y) == WithOverflow(AddU32(x.val, y.val), x.overflow \/ y.overflow)
MulChecked(x, k) == WithOverflow(MulSmall(x.val, k), x.overflow)

\* u32::overflowing_mul by a model integer c below 2^30, taken in 15-bit halves:
\* a * c = a * (c mod 2^15) + (a * (c div 2^15)) * 2^15
MulU32(a, c) ==
  AddChecked(MulSmall(a, c % (2^15)), MulChecked(MulSmall(a, c \div (2^15)), 2^15))

\* quotient and remainder of a u32 by a model integer c, 0 < c < 2^30:
\* divide a div 2, which fits a model integer, then put the last bit back
DivModU32(a, c) ==
  LET half  == a.hi * (2^15) + (a.lo \div 2)
      q     == half \div c
      rest  == 2 * (half % c) + (a.lo % 2)
      extra == IF rest >= c THEN 1 ELSE 0
  IN  [quot |-> [hi |-> q \div (2^15), lo |-> (q % (2^15)) * 2 + extra],
       rem  |-> rest - extra * c]

\* the u32 operator /
DivU32(a, c) == DivModU32(a, c).quot

SECOND == 1000
MINUTE == SECOND * 60
HOUR == MINUTE * 60
ARROW_SEPARATOR == " --> "

-----------------------------------------------------------------------------
(* strings                                                                 *)

\* the characters of the model's texts that are not one byte wide in UTF-8,
\* with their UTF-8 length and their display width (crate unicode-width)
WideChars == {"￥", "￦"}            \* U+FFE5, U+FFE6: 3 bytes, 2 columns
HalfwidthChars == {"ﾊ"}              \* U+FF8A: 3 bytes, 1 column
BOM == "﻿"                           \* U+FEFF: 3 bytes, 0 columns

CharBytes(c) ==
  IF c \in WideChars \/ c \in HalfwidthChars \/ c = BOM THEN 3
  ELSE 1

CharWidth(c) ==
  IF c \in WideChars THEN 2
  ELSE IF c = BOM THEN 0
  ELSE 1

\* str::len: the length in bytes, one per character and two more for each
\* three-byte character
ByteLen(s) ==
  Len(s) + 2 * Cardinality({i \in 1..Len(s) : CharBytes(SubSeq(s, i, i)) = 3})

\* UnicodeWidthStr::width: the columns, one per character, none for a
\* zero-width character and one more for each wide character
Width(s) ==
  Len(s)
  - Cardinality({i \in 1..Len(s) : CharWidth(SubSeq(s, i, i)) = 0})
  + Cardinality({i \in 1..Len(s) : CharWidth(SubSeq(s, i, i)) = 2})

\* the least element of a set of positions, 0 for the empty set
FirstOf(at) == IF at = {} THEN 0 ELSE CHOOSE i \in at : \A j \in at : i <= j

\* the first position at which pat occurs in s, 0 when it does not
Find(s, pat) ==
  FirstOf({i \in 1..(Len(s) - Len(pat) + 1) : SubSeq(s, i, i + Len(pat) - 1) = pat})

\* s cut around the n characters at position i, uncut when i = 0
CutAt(s, i, n) ==
  IF i = 0 THEN [found |-> FALSE, left |-> s, right |-> ""]
  ELSE [found |-> TRUE, left |-> SubSeq(s, 1, i - 1), right |-> SubSeq(s, i + n, Len(s))]

\* str::split_once
split_once(s, pat) == CutAt(s, Find(s, pat), Len(pat))

\* a split that does not stop at n pieces: every separator cuts
RECURSIVE SplitEvery(_, _, _)
SplitEveryPieces(cut, s, n, sep) ==
  IF ~cut.found THEN <<s>> ELSE <<cut.left>> \o SplitEvery(cut.right, n, sep)

SplitEvery(s, n, sep) == SplitEveryPieces(split_once(s, sep), s, n, sep)

\* str::splitn(n, sep) for n >= 1, collected into a sequence
RECURSIVE splitn(_, _, _)
SplitPieces(cut, s, n, sep) ==
  IF n = 1 \/ ~cut.found THEN <<s>>
  ELSE <<cut.left>> \o splitn(cut.right, n - 1, sep)

splitn(s, n, sep) == SplitPieces(split_once(s, sep), s, n, sep)

\* Vec::reverse
Reverse(q) == [i \in 1..Len(q) |-> q[Len(q) + 1 - i]]

\* str::replace(&[..], ""): s without the characters of the set
RECURSIVE RemoveChars(_, _)
RemoveChars(s, set) ==
  IF s = "" THEN ""
  ELSE (IF Head(s) \in set THEN "" ELSE Head(s)) \o RemoveChars(Tail(s), set)

StripCR(line) ==
  IF line # "" /\ SubSeq(line, Len(line), Len(line)) = "\r"
  THEN SubSeq(line, 1, Len(line) - 1) ELSE line

\* str::lines, collected: the pieces that end in a line feed, each without
\* its line feed and without one carriage return before it, and the rest of
\* the text after the last line feed, if not empty, as it is
RECURSIVE Lines(_)
LinePieces(cut, s) ==
  IF ~cut.found THEN <<s>>
  ELSE <<StripCR(cut.left)>> \o Lines(cut.right)

Lines(s) == IF s = "" THEN <<>> ELSE LinePieces(split_once(s, "\n"), s)

Digits == "0123456789"
IsDigit(c) == Find(Digits, c) # 0
DigitVal(c) == Find(Digits, c) - 1

\* one digit of u32::from_str: checked multiply by ten, checked add
NextDigit(acc, d) == AddChecked(WithOverflow(MulU32(acc.val, 10), acc.overflow), Exact(U32(d)))

\* the digit loop of u32::from_str; a character that is no digit, or an
\* overflow, is an error
RECURSIVE ParseDigits(_, _)
ParseDigits(s, acc) ==
  IF s = "" THEN [ok |-> ~acc.overflow, val |-> IF acc.overflow THEN U32(0) ELSE acc.val]
  ELSE IF ~IsDigit(Head(s)) THEN [ok |-> FALSE, val |-> U32(0)]
  ELSE With(NextDigit(acc, DigitVal(Head(s))), LAMBDA next : ParseDigits(Tail(s), next))

\* str::parse::<u32>: an optional '+', then one or more ASCII digits, no overflow
parse_u32(s) ==
  IF s = "" \/ s = "+" THEN [ok |-> FALSE, val |-> U32(0)]
  ELSE ParseDigits(IF Head(s) = "+" THEN Tail(s) ELSE s, Exact(U32(0)))

\* format!("{}", n) for a u32
RECURSIVE Dec(_)
Dec(a) ==
  LET d == DivModU32(a, 10)
      last == SubSeq(Digits, d.rem + 1, d.rem + 1)
  IN  IF Less(a, U32(10)) THEN last ELSE Dec(d.quot) \o last

\* a format without the zero padding
NoPad(s, w) == s

\* format!("{:0>w}", s): zeros on the left up to w characters
RECURSIVE PadZero(_, _)
PadZero(s, w) == IF Len(s) < w THEN PadZero("0" \o s, w) ELSE s

-----------------------------------------------------------------------------
(* results                                                                 *)

NoRange == [start |-> 0, end |-> 0]

\* Result::Ok(v)
Ok(v) == [kind |-> "Ok", val |-> v, reason |-> "", range |-> NoRange]

\* Result::Err(ParseError { reason, range: start..end }); the message text of
\* the error is not modelled
ParseError(why, from, to) ==
  [kind |-> "Err", val |-> <<>>, reason |-> why, range |-> [start |-> from, end |-> to]]

\* the thread panicked: an arithmetic overflow in a build with overflow checks
Panic == [kind |-> "Panic", val |-> <<>>, reason |-> "", range |-> NoRange]

\* no result yet
Pending == [kind |-> "Pending", val |-> <<>>, reason |-> "", range |-> NoRange]

\* struct Subtitle
Subtitle(n, f, t, ls) == [number |-> n, from |-> f, to |-> t, lines |-> ls]

-----------------------------------------------------------------------------
(* the time codec                                                          *)

\* hours * HOUR + minutes * MINUTE + seconds * SECOND + millis in u32
TimeSum(hours, minutes, seconds, millis) ==
  AddChecked(AddChecked(AddChecked(MulU32(hours, HOUR), MulU32(minutes, MINUTE)),
                        MulU32(seconds, SECOND)),
             Exact(millis))

\* the value parse_time returns for its four parsed fields: the first field
\* that did not parse is the error, in the order seconds, millis, minutes, hours
TimeResult(seconds, millis, minutes, hours, from, to) ==
  IF ~seconds.ok THEN ParseError("Invalid seconds", from, to)
  ELSE IF ~millis.ok THEN ParseError("Invalid millis", from, to)
  ELSE IF ~minutes.ok THEN ParseError("Invalid minutes", from, to)
  ELSE IF ~hours.ok THEN ParseError("Invalid hours", from, to)
  ELSE IF TimeSum(hours.val, minutes.val, seconds.val, millis.val).overflow
          /\ overflow_checks THEN Panic
  ELSE Ok(TimeSum(hours.val, minutes.val, seconds.val, millis.val).val)

\* the seconds segment split on ',': seconds_str and millis_str
SecondsStr(cut) == cut.left
MillisStr(cut) == IF cut.found THEN cut.right ELSE "0"

\* parse_time from the reversed segments on
TimeFields(number_strs, from, to) ==
  TimeResult(parse_u32(SecondsStr(split_once(number_strs[1], ","))),
             parse_u32(MillisStr(split_once(number_strs[1], ","))),
             IF Len(number_strs) >= 2 THEN parse_u32(number_strs[2])
             ELSE [ok |-> TRUE, val |-> U32(0)],
             IF Len(number_strs) >= 3 THEN parse_u32(number_strs[3])
             ELSE [ok |-> TRUE, val |-> U32(0)],
             from, to)

parse_time(t, idx) == TimeFields(Reverse(splitn(t, 3, ":")), idx, idx + Width(t))

print_time(millis) ==
  LET hours     == DivU32(millis, HOUR)
      leftover1 == SubU32(millis, MulU32(hours, HOUR).val).val
      minutes   == DivU32(leftover1, MINUTE)
      leftover2 == SubU32(leftover1, MulU32(minutes, MINUTE).val).val
      seconds   == DivU32(leftover2, SECOND)
      leftover3 == SubU32(leftover2, MulU32(seconds, SECOND).val).val
  IN  PadZero(Dec(hours), 2) \o ":" \o PadZero(Dec(minutes), 2) \o ":"
      \o PadZero(Dec(seconds), 2) \o "," \o PadZero(Dec(leftover3), 3)

-----------------------------------------------------------------------------
(* the record parser and the serializer                                    *)

\* a body loop that advances the index by the byte length of each line
RECURSIVE ReadBodyBytes(_, _, _)
ReadBodyBytes(iter, idx, ls) ==
  IF iter = <<>> THEN [lines_iter |-> iter, index |-> idx, lines |-> ls]
  ELSE IF Head(iter) = ""
  THEN [lines_iter |-> Tail(iter), index |-> idx + 1, lines |-> ls]
  ELSE ReadBodyBytes(Tail(iter), idx + ByteLen(Head(iter)) + 1, Append(ls, Head(iter)))

\* the inner loop of parse_srt: body lines up to a blank line or the end
RECURSIVE ReadBody(_, _, _)
ReadBody(iter, idx, ls) ==
  IF iter = <<>> THEN [lines_iter |-> iter, index |-> idx, lines |-> ls]
  ELSE LET line == Head(iter)
           idx1 == idx + Width(line) + 1
       IN  IF line = "" THEN [lines_iter |-> Tail(iter), index |-> idx1, lines |-> ls]
           ELSE ReadBody(Tail(iter), idx1, Append(ls, line))

\* an iteration of the outer loop that returns r (an error or a panic)
Stop(iter, idx, subs, r) ==
  [lines_iter |-> iter, index |-> idx, subtitles |-> subs, ret |-> r]

\* lines 162-167: the record is pushed and the loop goes on
PushRecord(number, from, to, body, subs) ==
  [lines_iter |-> body.lines_iter, index |-> body.index,
   subtitles |-> Append(subs, Subtitle(number, from, to, body.lines)),
   ret |-> Pending]

\* lines 148-160: both times decoded (or the first failure returned), the
\* index moved past the time line, the body read
Times(number, from, to, iter, idx, idx2, subs) ==
  IF from.kind # "Ok" THEN Stop(iter, idx, subs, from)
  ELSE IF to.kind # "Ok" THEN Stop(iter, idx, subs, to)
  ELSE PushRecord(number, from.val, to.val, ReadBody(iter, idx2, <<>>), subs)

\* lines 131-151: the time line split on the arrow
Arrow(number, time_line, cut, iter, idx, subs) ==
  IF ~cut.found
  THEN Stop(iter, idx, subs, ParseError("Missing ' --> '", idx, idx + Width(time_line)))
  ELSE Times(number,
             parse_time(cut.left, idx),
             parse_time(cut.right, idx + Width(cut.left) + Width(ARROW_SEPARATOR)),
             iter, idx, idx + ByteLen(time_line) + 1, subs)

\* lines 117-129: the time line taken from the line source
TimeLine(number, iter, idx, subs) ==
  IF iter = <<>> THEN Stop(iter, idx, subs, ParseError("Missing time line", idx, idx))
  ELSE Arrow(number, Head(iter), split_once(Head(iter), ARROW_SEPARATOR),
             Tail(iter), idx, subs)

\* lines 102-115: the number line parsed
NumberLine(number_line, number, iter, idx, subs) ==
  IF ~number.ok
  THEN Stop(iter, idx, subs,
            ParseError("Invalid subtitle number", idx, idx + Width(number_line)))
  ELSE TimeLine(number.val, iter, idx + Width(number_line) + 1, subs)

\* one iteration of the outer loop of parse_srt, from the loop head with at
\* least one line left; ret is Pending when the loop goes on
ParseIteration(iter, idx, subs) ==
  NumberLine(Head(iter), parse_u32(Head(iter)), Tail(iter), idx, subs)

RECURSIVE ParseLoop(_, _, _)
LoopOn(step) ==
  IF step.ret.kind # "Pending" THEN step.ret
  ELSE ParseLoop(step.lines_iter, step.index, step.subtitles)

ParseLoop(iter, idx, subs) ==
  IF iter = <<>> THEN Ok(subs) ELSE With(ParseIteration(iter, idx, subs), LoopOn)

FromFirstLine(lines) == ParseLoop(lines, 0, <<>>)

parse_srt(t) == With(Lines(t), FromFirstLine)

RECURSIVE JoinLines(_)
JoinLines(ls) == IF ls = <<>> THEN "" ELSE Head(ls) \o "\n" \o JoinLines(Tail(ls))

print_subtitle(subtitle) ==
  Dec(subtitle.number) \o "\n"
  \o print_time(subtitle.from) \o " --> " \o print_time(subtitle.to) \o "\n"
  \o JoinLines(subtitle.lines)

\* a serializer that leaves out the blank line after each record
RECURSIVE PrintUnseparated(_)
PrintUnseparated(subs) ==
  IF subs = <<>> THEN ""
  ELSE print_subtitle(Head(subs)) \o PrintUnseparated(Tail(subs))

RECURSIVE print_subtitles(_)
print_subtitles(subs) ==
  IF subs = <<>> THEN ""
  ELSE print_subtitle(Head(subs)) \o "\n" \o print_subtitles(Tail(subs))

-----------------------------------------------------------------------------
(* the adjustment loop of main                                             *)

\* an adjustment that moves the start time only
AdjustFromOnly(subtitle, isNeg, adj) ==
  LET f == IF isNeg THEN SubU32(subtitle.from, adj) ELSE AddU32(subtitle.from, adj)
  IN  [subtitle |-> [subtitle EXCEPT !.from = f.val],
       panicked |-> overflow_checks /\ f.overflow]

\* subtitle.from op= adjustment; subtitle.to op= adjustment  for one record;
\* with overflow checks the first overflowing assignment panics and leaves
\* its field as it was
AdjustOne(subtitle, isNeg, adj) ==
  LET f == IF isNeg THEN SubU32(subtitle.from, adj) ELSE AddU32(subtitle.from, adj)
      t == IF isNeg THEN SubU32(subtitle.to, adj) ELSE AddU32(subtitle.to, adj)
  IN  IF overflow_checks /\ f.overflow
      THEN [subtitle |-> subtitle, panicked |-> TRUE]
      ELSE IF overflow_checks /\ t.overflow
      THEN [subtitle |-> [subtitle EXCEPT !.from = f.val], panicked |-> TRUE]
      ELSE [subtitle |-> [subtitle EXCEPT !.from = f.val, !.to = t.val],
            panicked |-> FALSE]

\* for subtitle in subtitles.iter_mut() { ... }
RECURSIVE AdjustAll(_, _, _)
AdjustAll(subs, isNeg, adj) ==
  IF subs = <<>> THEN [subtitles |-> <<>>, panicked |-> FALSE]
  ELSE LET one  == AdjustOne(Head(subs), isNeg, adj)
           rest == AdjustAll(Tail(subs), isNeg, adj)
       IN  IF one.panicked
           THEN [subtitles |-> <<one.subtitle>> \o Tail(subs), panicked |-> TRUE]
           ELSE [subtitles |-> <<one.subtitle>> \o rest.subtitles,
                 panicked |-> rest.panicked]

-----------------------------------------------------------------------------
(* inputs                                                                  *)

MaxLines == 5        \* lines of a generated input file
MaxRecords == 2      \* records of a generated record list
MaxBodyLines == 2    \* body lines of a generated record

\* the lines generated input files are made of: a number line, a time line,
\* a line with a wide and a halfwidth character, a blank line, and a time
\* line whose first timestamp ends in a three-byte character
LinePool == {"1", "0 --> 1", "￥ﾊ", "", "0ﾊ --> 0"}

RECURSIVE JoinWith(_, _)
JoinWith(ls, sep) ==
  IF ls = <<>> THEN ""
  ELSE IF Len(ls) = 1 THEN Head(ls)
  ELSE Head(ls) \o sep \o JoinWith(Tail(ls), sep)

\* every file of at most MaxLines pool lines, with and without a line feed
\* after the last line
GeneratedTexts ==
  { JoinWith(ls, "\n") \o (IF final THEN "\n" ELSE "") :
      ls \in UNION { [1..n -> LinePool] : n \in 0..MaxLines }, final \in BOOLEAN }

Example == "1\n00:00:01,000 --> 00:00:03,500\nHello world\n\n"

ExampleTexts ==
  { Example,
    Example \o "\n",
    "1\r\n00:00:01,000 --> 00:00:03,500\r\nHello world\r\n\r\n",
    Example \o "2\n00:00:00,400 --> 01:00:00,000\n￦\nsecond line\n",
    "1\n1193:02:47,295 --> 1194:00:00,000\n\n",
    "7\n1:2:3:4 --> 5\n" }

AdjustmentArgs ==
  { "+2000", "+2", "+0:02", "2,500", "-00:00:01,500", "-0,400", "-1:00:00", "0",
    "1:2:3:4", "abc", "1194:00:00" }

\* millisecond counts h:m:s,ms around every field's padding boundaries
MillisSamples ==
  { ((h * 60 + m) * 60 + sec) * 1000 + ms :
      h \in {0, 1, 9, 10, 99, 100}, m \in {0, 9, 10, 59}, sec \in {0, 9, 10, 59},
      ms \in {0, 9, 10, 99, 100, 999} }

\* the segments timestamps are made of, and timestamps of one to four of them
Segments == {"1", "02", "x", "3,4"}

TimeTexts ==
  { JoinWith(segs, ":") : segs \in UNION { [1..n -> Segments] : n \in 1..4 } }

BaseIndexes == {0, 7}

BodyLinePool == {"2", "￥ --> ﾊ"}

Bodies == UNION { [1..n -> BodyLinePool] : n \in 0..MaxBodyLines }

\* records with every number and pair of times, and records with every body
RecordPool ==
  { Subtitle(n, t[1], t[2], <<>>) :
      n \in {U32(0), U32Max},
      t \in {<<U32(1000), U32(3500)>>, <<U32(359999999), U32(0)>>, <<U32Max, U32Max>>} }
  \cup { Subtitle(U32(7), U32(1000), U32(3500), b) : b \in Bodies }

RecordLists == UNION { [1..n -> RecordPool] : n \in 0..MaxRecords }

\* the records and adjustments of the composition runs
ComposeTimes == {<<U32(0), U32(1000)>>, <<U32(1000), U32(3500)>>}

ComposeLists ==
  UNION { [1..n -> { Subtitle(U32(i), t[1], t[2], <<"x">>) : i \in {1}, t \in ComposeTimes }] :
            n \in 1..MaxRecords }

Magnitudes == {U32(0), U32(500), U32(1500), U32(2000)}

Deltas == [neg : BOOLEAN, adjustment : Magnitudes]

-----------------------------------------------------------------------------
(* a run of main                                                           *)

codecVars == <<millis_in, time_text, base_index, decoded>>
composeVars == <<delta1, delta2, single, chained>>
argVars == <<overflow_checks, args_adjustment, args_output, file_readable,
             output_writable>>
fileVars == <<file_text, output_file>>
parseVars == <<lines_iter, index, subtitles, result>>

IdleMain ==
  /\ args_adjustment = "" /\ file_text = "" /\ adjustment = U32(0) /\ neg = FALSE
  /\ args_output = "None" /\ output_file = ""
  /\ file_readable = TRUE /\ output_writable = TRUE
  /\ text = "" /\ lines_iter = <<>> /\ index = 0
IdleCodec ==
  /\ millis_in = U32(0) /\ time_text = "" /\ base_index = 0 /\ decoded = Pending
IdleCompose ==
  /\ delta1 = [neg |-> FALSE, adjustment |-> U32(0)]
  /\ delta2 = [neg |-> FALSE, adjustment |-> U32(0)]
  /\ single = [subtitles |-> <<>>, panicked |-> FALSE]
  /\ chained = [subtitles |-> <<>>, panicked |-> FALSE]

\* the program is started on a generated file with the adjustment +2, or on
\* an example file with every adjustment, every outcome of the read, both
\* settings of --output and every outcome of the write; a failing write is
\* taken on the files of one-byte characters, where a prefix of the output
\* in bytes is a prefix in characters
Init ==
  /\ pc = "start"
  /\ overflow_checks \in BOOLEAN
  /\ \/ /\ file_text \in GeneratedTexts /\ args_adjustment = "+2"
        /\ file_readable = TRUE /\ output_writable = TRUE /\ args_output = "None"
     \/ /\ file_text \in ExampleTexts /\ args_adjustment \in AdjustmentArgs
        /\ file_readable \in BOOLEAN
        /\ output_writable \in (IF ByteLen(file_text) = Len(file_text)
                                THEN BOOLEAN ELSE {TRUE})
        /\ args_output \in {"None", "Some"}
  /\ output_file = ""
  /\ adjustment = U32(0) /\ neg = FALSE /\ text = ""
  /\ lines_iter = <<>> /\ index = 0 /\ subtitles = <<>>
  /\ result = Pending /\ output = "" /\ exit_status = "running"
  /\ IdleCodec /\ IdleCompose

\* main, lines 30-37: decode the adjustment without its sign characters
DecodeAdjustment ==
  /\ pc = "start"
  /\ LET r == parse_time(RemoveChars(args_adjustment, {"+", "-"}), 0)
     IN  /\ adjustment' = IF r.kind = "Ok" THEN r.val ELSE adjustment
         /\ neg' = (r.kind = "Ok" /\ args_adjustment # "" /\ Head(args_adjustment) = "-")
         /\ pc' = IF r.kind = "Ok" THEN "read" ELSE "exit"
         /\ exit_status' = IF r.kind = "Ok" THEN exit_status
                           ELSE IF r.kind = "Err" THEN "error" ELSE "panic"
  /\ UNCHANGED <<argVars, fileVars, text, parseVars, output, codecVars, composeVars>>

\* main, lines 39-47, and the entry of parse_srt, lines 98-100; a file that
\* cannot be read ends the run with status 1
ReadText ==
  /\ pc = "read"
  /\ IF file_readable
     THEN /\ text' = RemoveChars(file_text, {"\r", BOM})
          /\ lines_iter' = Lines(text')
          /\ index' = 0
          /\ subtitles' = <<>>
          /\ pc' = "parse"
          /\ UNCHANGED exit_status
     ELSE /\ pc' = "exit"
          /\ exit_status' = "error"
          /\ UNCHANGED <<text, lines_iter, index, subtitles>>
  /\ UNCHANGED <<argVars, fileVars, adjustment, neg, result, output, codecVars, composeVars>>

\* parse_srt: one iteration of the outer loop; an error ends the run with the
\* diagnostic of main, lines 49-63
ParseRecord ==
  /\ pc = "parse"
  /\ lines_iter # <<>>
  /\ LET step == ParseIteration(lines_iter, index, subtitles)
     IN  /\ lines_iter' = step.lines_iter
         /\ index' = step.index
         /\ subtitles' = step.subtitles
         /\ result' = step.ret
         /\ pc' = IF step.ret.kind = "Pending" THEN "parse" ELSE "exit"
         /\ exit_status' = IF step.ret.kind = "Pending" THEN exit_status
                           ELSE IF step.ret.kind = "Err" THEN "diagnostic" ELSE "panic"
  /\ UNCHANGED <<argVars, fileVars, adjustment, neg, text, output, codecVars, composeVars>>

\* parse_srt: the line source is exhausted at the loop head, Ok(subtitles)
ParseEnd ==
  /\ pc = "parse"
  /\ lines_iter = <<>>
  /\ result' = Ok(subtitles)
  /\ pc' = "adjust"
  /\ UNCHANGED <<argVars, fileVars, adjustment, neg, text, lines_iter, index, subtitles,
                 output, exit_status, codecVars, composeVars>>

\* main, lines 65-73
Adjust ==
  /\ pc = "adjust"
  /\ LET r == AdjustAll(subtitles, neg, adjustment)
     IN  /\ subtitles' = r.subtitles
         /\ pc' = IF r.panicked THEN "exit" ELSE "print"
         /\ exit_status' = IF r.panicked THEN "panic" ELSE exit_status
  /\ UNCHANGED <<argVars, fileVars, adjustment, neg, text, lines_iter, index, result,
                 output, codecVars, composeVars>>

\* what a failing fs::write(path, out) leaves in a file that held old:
\* File::create failed and the file is as it was, or the file was truncated
\* and write_all failed after a proper prefix of out, the empty one included
FailedWrites(old, out) == {old} \cup {SubSeq(out, 1, k) : k \in 0..(Len(out) - 1)}

\* the file at path after fs::write(path, out)
WriteFile(old, out) == IF output_writable THEN {out} ELSE FailedWrites(old, out)

\* main, lines 75-81: the output goes to Arguments.output, else it replaces
\* the contents of Arguments.file; a write that fails ends the run with
\* status 1
PrintAndWrite ==
  /\ pc = "print"
  /\ output' = print_subtitles(subtitles)
  /\ IF args_output = "None"
     THEN file_text' \in WriteFile(file_text, output') /\ UNCHANGED output_file
     ELSE output_file' \in WriteFile(output_file, output') /\ UNCHANGED file_text
  /\ exit_status' = IF output_writable THEN "ok" ELSE "error"
  /\ pc' = "exit"
  /\ UNCHANGED <<argVars, adjustment, neg, text, parseVars, codecVars, composeVars>>

Next ==
  \/ DecodeAdjustment
  \/ ReadText
  \/ ParseRecord
  \/ ParseEnd
  \/ Adjust
  \/ PrintAndWrite

Spec == Init /\ [][Next]_vars

-----------------------------------------------------------------------------
(* runs of the time codec alone                                            *)

IdleRecords ==
  /\ subtitles = <<>> /\ result = Pending /\ output = "" /\ exit_status = "running"

\* either a millisecond count to encode and decode again, or a text to decode
InitCodec ==
  /\ overflow_checks \in BOOLEAN
  /\ base_index \in BaseIndexes
  /\ \/ pc = "encode" /\ millis_in \in ({U32(m) : m \in MillisSamples} \cup {U32Max})
        /\ time_text = ""
     \/ pc = "given" /\ millis_in = U32(0) /\ time_text \in TimeTexts
  /\ decoded = Pending
  /\ IdleMain /\ IdleRecords /\ IdleCompose

\* print_time
EncodeTime ==
  /\ pc = "encode"
  /\ time_text' = print_time(millis_in)
  /\ pc' = "encoded"
  /\ UNCHANGED <<argVars, fileVars, adjustment, neg, text, parseVars, output, exit_status,
                 millis_in, base_index, decoded, composeVars>>

\* parse_time, on the encoded text or on the given one
DecodeTime ==
  /\ pc \in {"encoded", "given"}
  /\ decoded' = parse_time(time_text, base_index)
  /\ pc' = IF pc = "encoded" THEN "roundtrip" ELSE "decoded"
  /\ UNCHANGED <<argVars, fileVars, adjustment, neg, text, parseVars, output, exit_status,
                 millis_in, time_text, base_index, composeVars>>

NextCodec == EncodeTime \/ DecodeTime

SpecCodec == InitCodec /\ [][NextCodec]_vars

-----------------------------------------------------------------------------
(* runs of the serializer followed by the parser                           *)

InitRoundTrip ==
  /\ pc = "records"
  /\ overflow_checks \in BOOLEAN
  /\ subtitles \in RecordLists
  /\ result = Pending /\ output = "" /\ exit_status = "running"
  /\ IdleMain /\ IdleCodec /\ IdleCompose

\* print_subtitles
Serialize ==
  /\ pc = "records"
  /\ output' = print_subtitles(subtitles)
  /\ pc' = "serialized"
  /\ UNCHANGED <<argVars, fileVars, adjustment, neg, text, parseVars, exit_status,
                 codecVars, composeVars>>

\* parse_srt on the serialized text
Reparse ==
  /\ pc = "serialized"
  /\ result' = parse_srt(output)
  /\ pc' = "reparsed"
  /\ UNCHANGED <<argVars, fileVars, adjustment, neg, text, lines_iter, index, subtitles,
                 output, exit_status, codecVars, composeVars>>

NextRoundTrip == Serialize \/ Reparse

SpecRoundTrip == InitRoundTrip /\ [][NextRoundTrip]_vars

-----------------------------------------------------------------------------
(* two adjustments in a row against their sum in one                       *)

\* the signed sum of two deltas as sign and magnitude
SumDelta(d1, d2) ==
  IF d1.neg = d2.neg
  THEN [neg |-> d1.neg, adjustment |-> AddU32(d1.adjustment, d2.adjustment).val]
  ELSE IF Less(d1.adjustment, d2.adjustment)
  THEN [neg |-> d2.neg, adjustment |-> SubU32(d2.adjustment, d1.adjustment).val]
  ELSE [neg |-> d1.neg, adjustment |-> SubU32(d1.adjustment, d2.adjustment).val]

InitCompose ==
  /\ pc = "compose"
  /\ overflow_checks \in BOOLEAN
  /\ subtitles \in ComposeLists
  /\ delta1 \in Deltas
  /\ delta2 \in Deltas
  /\ single = [subtitles |-> <<>>, panicked |-> FALSE]
  /\ chained = [subtitles |-> <<>>, panicked |-> FALSE]
  /\ result = Pending /\ output = "" /\ exit_status = "running"
  /\ IdleMain /\ IdleCodec

\* the loop of main, lines 65-73, run once with delta1 + delta2
ApplySum ==
  /\ pc = "compose"
  /\ single' = AdjustAll(subtitles, SumDelta(delta1, delta2).neg,
                         SumDelta(delta1, delta2).adjustment)
  /\ pc' = "first"
  /\ UNCHANGED <<argVars, fileVars, adjustment, neg, text, parseVars, output, exit_status,
                 codecVars, delta1, delta2, chained>>

\* the loop of main run with the delta d on the records subs; a panic ends
\* the run
ApplyDelta(subs, d, then) ==
  /\ chained' = AdjustAll(subs, d.neg, d.adjustment)
  /\ pc' = IF chained'.panicked THEN "exit" ELSE then
  /\ exit_status' = IF chained'.panicked THEN "panic" ELSE exit_status
  /\ UNCHANGED <<argVars, fileVars, adjustment, neg, text, parseVars, output,
                 codecVars, delta1, delta2, single>>

ApplyFirst == pc = "first" /\ ApplyDelta(subtitles, delta1, "second")

ApplySecond == pc = "second" /\ ApplyDelta(chained.subtitles, delta2, "composed")

NextCompose == ApplySum \/ ApplyFirst \/ ApplySecond

SpecCompose == InitCompose /\ [][NextCompose]_vars

-----------------------------------------------------------------------------
(* properties                                                              *)

\* C1: for every record list with times in the u32 range and non-empty body
\* lines, parse_srt(print_subtitles(records)) succeeds and returns the same
\* records in the same order.
C1_RoundTrip == pc = "reparsed" => result = Ok(subtitles)

C1_RoundTripWitness ==
  /\ pc = "reparsed"
  /\ Len(subtitles) >= 2
  /\ result.kind = "Ok"
  /\ subtitles[1].from = U32Max
  /\ Len(subtitles[2].lines) >= 2

\* C2: for every millisecond count m in [0, 359999999], print_time(m) is
\* HH:MM:SS,mmm with hours = m div 3600000, minutes = (m mod 3600000) div
\* 60000, seconds = (m mod 60000) div 1000, millis = m mod 1000, padded to
\* 2:2:2,3 digits, and parse_time of that text gives Ok(m) at any base index.
C2_TimeCodecInverse ==
  LET m == ToInt(millis_in)
      digit(d) == SubSeq("0123456789", d + 1, d + 1)
      two(n) == digit(n \div 10) \o digit(n % 10)
      three(n) == digit(n \div 100) \o two(n % 100)
  IN  (pc \in {"encoded", "roundtrip"} /\ FitsInt(millis_in) /\ m <= 359999999)
      => /\ time_text = two(m \div 3600000) \o ":" \o two((m % 3600000) \div 60000)
                        \o ":" \o two((m % 60000) \div 1000) \o "," \o three(m % 1000)
         /\ pc = "roundtrip" => decoded = Ok(millis_in)

C2_TimeCodecInverseWitness ==
  /\ pc = "roundtrip"
  /\ millis_in = U32(359999999)
  /\ time_text = "99:59:59,999"
  /\ base_index = 7
  /\ decoded.kind = "Ok"

\* C3: every ParseError returned by parse_srt has
\* range.start <= range.end <= the byte length of the input text.
C3_SpanWithinInput ==
  (exit_status = "diagnostic" /\ result.kind = "Err")
  => /\ result.range.start <= result.range.end
     /\ result.range.end <= ByteLen(text)

\* C4: the range of an 'Invalid subtitle number' error is exactly the bytes of
\* the offending number line: from the byte offset of its first character to
\* the offset just past its last one.
C4_NumberSpanExact ==
  LET ls == Lines(text)
      n  == Len(ls) - Len(lines_iter)
      at == ByteLen(JoinLines(SubSeq(ls, 1, n - 1)))
  IN  (exit_status = "diagnostic" /\ result.reason = "Invalid subtitle number")
      => result.range = [start |-> at, end |-> at + ByteLen(ls[n])]

\* C5: a negative adjustment larger than some start or end time is rejected
\* with a NegativeResult error and changes no record.
C5_NegativeResultRejected ==
  (/\ pc \in {"print", "exit"}
   /\ result.kind = "Ok"
   /\ neg
   /\ \E i \in 1..Len(result.val) :
        Less(result.val[i].from, adjustment) \/ Less(result.val[i].to, adjustment))
  => (exit_status = "NegativeResult" /\ subtitles = result.val)

\* C6 as stated: the pipeline on the example text with the adjustment +2000
\* shifts both times by two seconds.
C6_TwoThousandIsTwoSeconds ==
  (pc = "exit" /\ text = Example /\ args_adjustment = "+2000")
  => output = "1\n00:00:03,000 --> 00:00:05,500\nHello world\n\n"

\* C6 amended: the pipeline on the example text with the adjustment +2000
\* shifts both times by 2000 seconds, a bare number being decoded as seconds,
\* and outputs 00:33:21,000 --> 00:33:23,500; the adjustments +2 and +0:02
\* give the two second shift.
C6_EndToEnd ==
  (pc = "exit" /\ text = Example)
  => /\ args_adjustment = "+2000"
        => output = "1\n00:33:21,000 --> 00:33:23,500\nHello world\n\n"
     /\ args_adjustment \in {"+2", "+0:02"}
        => output = "1\n00:00:03,000 --> 00:00:05,500\nHello world\n\n"

C6_EndToEndWitness ==
  /\ pc = "exit"
  /\ text = Example
  /\ args_adjustment = "+2000"
  /\ adjustment = U32(2000000)
  /\ output = "1\n00:33:21,000 --> 00:33:23,500\nHello world\n\n"
  /\ exit_status = "ok"
  /\ args_output = "None"
  /\ file_text = output

\* the sum delta1 + delta2 takes no time of the records below zero
NoUnderflowInSum ==
  \/ ~SumDelta(delta1, delta2).neg
  \/ \A i \in 1..Len(subtitles) :
       /\ ~Less(subtitles[i].from, SumDelta(delta1, delta2).adjustment)
       /\ ~Less(subtitles[i].to, SumDelta(delta1, delta2).adjustment)

\* C7: applying delta1 and then delta2 gives every record the times that
\* applying delta1 + delta2 once gives, whenever the single application takes
\* no time below zero, also when delta1 alone would.
C7_Composition ==
  (pc \in {"composed", "exit"} /\ NoUnderflowInSum)
  => (pc = "composed" /\ chained.subtitles = single.subtitles)

\* C8: when parse_srt succeeds on a text that ends after a complete record, it
\* succeeds with the same records on that text followed by one or two more
\* blank lines.
C8_TrailingBlankAccepted ==
  (/\ pc = "adjust"
   /\ Len(subtitles) >= 1
   /\ SubSeq(text, Len(text), Len(text)) = "\n")
  => \A blank \in {"\n", "\n\n"} : parse_srt(text \o blank) = result

\* C9 as stated: of four numeric segments the leftmost is ignored and the
\* result is the millisecond count of the rightmost three.
C9_FourthSegmentIgnored ==
  \A a, b, c \in {"1", "02"}, d \in {"1", "02", "3,4"} :
    (pc = "decoded" /\ time_text = a \o ":" \o b \o ":" \o c \o ":" \o d)
    => decoded = parse_time(b \o ":" \o c \o ":" \o d, base_index)

\* C9 amended: with one to three segments the rightmost is seconds[,millis],
\* the one before it minutes, the one before that hours; with four numeric
\* segments the third piece keeps the rest, "c:d", and the result is the error
\* 'Invalid seconds' over the whole text.
C9_AtMostThreeSegments ==
  LET num(x) == IF x = "1" THEN 1 ELSE 2
      ms(x)  == IF x = "1" THEN 1000 ELSE IF x = "02" THEN 2000 ELSE 3004
  IN  \A a, b, c \in {"1", "02"}, d \in {"1", "02", "3,4"} :
        pc = "decoded" =>
          /\ time_text = d => decoded = Ok(U32(ms(d)))
          /\ time_text = c \o ":" \o d => decoded = Ok(U32(num(c) * 60000 + ms(d)))
          /\ time_text = b \o ":" \o c \o ":" \o d
             => decoded = Ok(U32(num(b) * 3600000 + num(c) * 60000 + ms(d)))
          /\ time_text = a \o ":" \o b \o ":" \o c \o ":" \o d
             => decoded = ParseError("Invalid seconds", base_index,
                                     base_index + Len(time_text))

C9_AtMostThreeSegmentsWitness ==
  /\ pc = "decoded"
  /\ time_text = "1:02:1:3,4"
  /\ base_index = 7
  /\ decoded.reason = "Invalid seconds"

\* the sum of (display width + 1) over the lines ls
RECURSIVE SumWidths(_)
SumWidths(ls) == IF ls = <<>> THEN 0 ELSE Width(Head(ls)) + 1 + SumWidths(Tail(ls))

\* C10: at the head of every iteration of the loop of parse_srt, index is the
\* sum of (display width + 1) over the lines consumed so far; and a time line
\* whose two timestamps decode has as many bytes as columns.
C10_IndexIsSumOfWidths ==
  LET ls == Lines(text)
  IN  pc = "parse" =>
        /\ index = SumWidths(SubSeq(ls, 1, Len(ls) - Len(lines_iter)))
        /\ \A i \in 1..Len(ls) :
             (/\ split_once(ls[i], ARROW_SEPARATOR).found
              /\ parse_time(split_once(ls[i], ARROW_SEPARATOR).left, 0).kind = "Ok"
              /\ parse_time(split_once(ls[i], ARROW_SEPARATOR).right, 0).kind = "Ok")
             => ByteLen(ls[i]) = Width(ls[i])

C10_IndexIsSumOfWidthsWitness ==
  /\ pc = "parse"
  /\ Len(subtitles) >= 1
  /\ lines_iter # <<>>
  /\ \E i \in 1..Len(subtitles) : subtitles[i].lines = <<"￥ﾊ">>
  /\ index < ByteLen(JoinLines(SubSeq(Lines(text), 1, Len(Lines(text)) - Len(lines_iter))))

=============================================================================
